---- MODULE Spec2Model ----
(***************************************************************************)
(* yalog4ts: named loggers, a level enumeration with its normalisation,    *)
(* the LoggerFactory singleton (logger cache, stored level overrides,      *)
(* active appenders, persisted configuration) and the LocalStorageAppender *)
(* (a rotating buffer of log entries in the storage).                      *)
(*                                                                         *)
(*   SpecLogger : a free-standing Logger (lib/logger.ts)                   *)
(*   SpecLevel  : getValidLevel (lib/logger.ts)                            *)
(*   Spec       : the LoggerFactory singleton (lib/logger-factory.ts);     *)
(*                SpecGetLogger, SpecIndex, ... are Spec with `last`       *)
(*                recording the outcomes named in their observation set;   *)
(*                SpecRestore and SpecInit start on other storage contents *)
(*   SpecRotate, SpecSingleWriter : one LocalStorageAppender               *)
(***************************************************************************)
EXTENDS Integers, Sequences, FiniteSets, TLC

VARIABLES
    \* ---- LoggerFactory singleton (logger-factory.ts) ----
    storedLevels,     \* storedLevels: logger name (or __root) -> level
    cachedLoggers,    \* cachedLoggers: the Map, as the sequence of Loggers in insertion order
    theRootLevel,     \* theRootLevel
    appenders,        \* appenders: undefined, or the sequence of active keys (object key order)
    registered,       \* registeredAppenders: the keys of the catalog
    storage,          \* storage: TRUE when a Storage reference is set
    item,             \* the content of the storage key 'loggerfactory'
    localStorage,     \* TRUE when the environment has a Storage to hand to init
    created,          \* number of Logger objects constructed by getLogger
    firstInstance,    \* history: name -> the instance the first getLogger(name) returned
    \* ---- a free-standing Logger (logger.ts) ----
    logger,           \* the Logger under test
    calls,            \* the appender invocations made by the most recent operation
    \* ---- LocalStorageAppender (logger-localstorage-appender.ts) ----
    lsCache,          \* logCache of each appender instance: undefined or the entries
    lsItem,           \* the content of the storage key 'log'
    lsCalls,          \* number of logging calls made on the appenders so far
    lsReturned,       \* what the most recent appender call returned
    \* ---- history ----
    last              \* the most recent operation and what it returned

lsVars == <<lsCache, lsItem, lsCalls, lsReturned>>

vars == <<storedLevels, cachedLoggers, theRootLevel, appenders, registered,
          storage, item, localStorage, created, firstInstance, logger, calls, lsVars, last>>

factoryVars == <<storedLevels, cachedLoggers, theRootLevel, appenders, registered,
                 storage, item, localStorage, created, firstInstance>>

(***************************************************************************)
(* Bounds of the model.                                                    *)
(***************************************************************************)
\* the most loggers the cache is let to hold
MaxLoggers == 2

\* the most keys one setLogAppenders call is given
MaxKeys == 2

\* the most appenders a free-standing Logger is built with
MaxAppenders == 2

\* the most extra arguments of a logging call
MaxParams == 2

(***************************************************************************)
(* JavaScript values.  Every value is a record of the same shape so that   *)
(* values of different JavaScript types can be compared.                   *)
(***************************************************************************)
JsNum(n) == [type |-> "number", num |-> n, str |-> ""]
JsStr(s) == [type |-> "string", num |-> 0, str |-> s]
JsBool(b) == [type |-> "boolean", num |-> IF b THEN 1 ELSE 0, str |-> ""]
JsNull == [type |-> "null", num |-> 0, str |-> ""]
JsUndefined == [type |-> "undefined", num |-> 0, str |-> ""]

\* ToBoolean: what `if (v)`, `v || w` and `v ? a : b` test.
Truthy(v) ==
    CASE v.type = "number" -> v.num # 0
      [] v.type = "string" -> v.str # ""
      [] v.type = "boolean" -> v.num = 1
      [] OTHER -> FALSE

\* Unary plus on the strings of the model that are numeric (not NaN).
StringToNumber == ("" :> 0) @@ ("0" :> 0) @@ ("3" :> 3) @@ ("5" :> 5) @@ ("100" :> 100)

NumericStrings == DOMAIN StringToNumber

\* isNaN(+s) for a string s
StringIsNaN(s) == s \notin NumericStrings

(***************************************************************************)
(* enum Level: the forward map (name -> ordinal) and the reverse map       *)
(* (ordinal -> name) that a TypeScript numeric enum holds.                 *)
(***************************************************************************)
Level == [OFF |-> 0, ERROR |-> 1, WARN |-> 2, INFO |-> 3, DEBUG |-> 4, TRACE |-> 5]

LevelNames == {"OFF", "ERROR", "WARN", "INFO", "DEBUG", "TRACE"}

Ordinals == {Level[n] : n \in LevelNames}

\* Level[ordinal]: the name of an ordinal
LevelName(n) == CHOOSE s \in LevelNames : Level[s] = n

\* The six Levels, as values
Levels == {JsNum(n) : n \in Ordinals}

(***************************************************************************)
(* getValidLevel (logger.ts)                                               *)
(***************************************************************************)
\* a variant that forgets the check of the number against the enum
getValidLevelUnchecked(level) ==
    CASE level.type \in {"null", "undefined"} -> JsNull
      [] level.type = "string" ->
            IF StringIsNaN(level.str)
            THEN IF level.str \in LevelNames THEN JsNum(Level[level.str]) ELSE JsNull
            ELSE JsNull
      [] OTHER -> level

getValidLevel(level) ==
    CASE level.type \in {"null", "undefined"} -> JsNull
      [] level.type = "string" ->
            IF StringIsNaN(level.str)
            THEN IF level.str \in LevelNames THEN JsNum(Level[level.str]) ELSE JsNull
            ELSE JsNull
      [] level.type = "number" ->
            IF level.num \in Ordinals THEN level ELSE JsNull
      [] OTHER -> level

(***************************************************************************)
(* class Logger (logger.ts).  A Logger is a record; `ref` is the identity  *)
(* of the object.                                                          *)
(***************************************************************************)
\* calculateEffectiveLevel: this.level || this.rootLevel
calculateEffectiveLevel(level, rootLevel) ==
    IF Truthy(level) THEN level ELSE rootLevel

\* set rootLevel(value)
SetRootLevel(lg, value) ==
    [lg EXCEPT !.rootLevel = value,
               !.effectiveLevel = calculateEffectiveLevel(lg.level, value)]

\* set level(value)
SetLevel(lg, value) ==
    [lg EXCEPT !.level = value,
               !.effectiveLevel = calculateEffectiveLevel(value, lg.rootLevel)]

\* a constructor that ignores the level handed in
NewLoggerWithoutLevel(ref, name, rootLevel, level, apps) ==
    [ref |-> ref, name |-> name, rootLevel |-> rootLevel, level |-> JsNull,
     effectiveLevel |-> rootLevel, appenders |-> apps]

\* constructor(name, rootLevel, level, appenders)
NewLogger(ref, name, rootLevel, level, apps) ==
    SetLevel(
        SetRootLevel([ref |-> ref, name |-> name, rootLevel |-> JsUndefined,
                      level |-> JsUndefined, effectiveLevel |-> JsUndefined,
                      appenders |-> apps], rootLevel),
        level)

\* ToNumber of a value that takes part in `<=`; nan marks NaN.
ToNumber(v) ==
    CASE v.type = "number" -> [nan |-> FALSE, n |-> v.num]
      [] v.type = "boolean" -> [nan |-> FALSE, n |-> v.num]
      [] v.type = "null" -> [nan |-> FALSE, n |-> 0]
      [] v.type = "string" /\ ~StringIsNaN(v.str) -> [nan |-> FALSE, n |-> StringToNumber[v.str]]
      [] OTHER -> [nan |-> TRUE, n |-> 0]

\* a <= b on JavaScript values (false when either side is NaN)
JsLeq(a, b) ==
    /\ ~ToNumber(a).nan
    /\ ~ToNumber(b).nan
    /\ ToNumber(a).n <= ToNumber(b).n

\* shouldLog(level): level <= this.effectiveLevel
shouldLog(lg, level) == JsLeq(level, lg.effectiveLevel)

\* formatLogMessage: `[${Level[level]}] - ${this.name}: ${msg}`, as its pieces
formatLogMessage(lg, level, msg) ==
    <<"[", LevelName(level.num), "] - ", lg.name, ": ", msg>>

\* a log that leaves out the last appender
logDroppingLast(lg, requiredLevel, logFunction, msg, optionalParams, format) ==
    IF shouldLog(lg, requiredLevel)
    THEN [i \in 1..(Len(lg.appenders) - 1) |->
            [appender |-> lg.appenders[i], fn |-> logFunction,
             args |-> <<IF format THEN formatLogMessage(lg, requiredLevel, msg)
                                  ELSE <<msg>>>> \o optionalParams]]
    ELSE <<>>

\* a log that does not consult shouldLog
logUngated(lg, requiredLevel, logFunction, msg, optionalParams, format) ==
    [i \in 1..Len(lg.appenders) |->
        [appender |-> lg.appenders[i], fn |-> logFunction,
         args |-> <<IF format THEN formatLogMessage(lg, requiredLevel, msg)
                              ELSE <<msg>>>> \o optionalParams]]

\* log(requiredLevel, logFunction, msg, optionalParams, format): the invocations
\* it makes, in order.  The first argument is the formatted message (its pieces)
\* or, unformatted, the value itself (a one-piece message).
log(lg, requiredLevel, logFunction, msg, optionalParams, format) ==
    IF shouldLog(lg, requiredLevel)
    THEN [i \in 1..Len(lg.appenders) |->
            [appender |-> lg.appenders[i], fn |-> logFunction,
             args |-> <<IF format THEN formatLogMessage(lg, requiredLevel, msg)
                                  ELSE <<msg>>>> \o optionalParams]]
    ELSE <<>>

\* The severity methods and the Level each one logs on.
SeverityLevel ==
    [error |-> JsNum(Level.ERROR), warn |-> JsNum(Level.WARN), info |-> JsNum(Level.INFO),
     debug |-> JsNum(Level.DEBUG), trace |-> JsNum(Level.TRACE)]

SeverityMethods == DOMAIN SeverityLevel

(***************************************************************************)
(* class LoggerFactory (logger-factory.ts)                                 *)
(***************************************************************************)
DEFAULT_ROOT_LEVEL == JsNum(Level.INFO)

\* Names are sequences of characters; a name that no selector takes apart is
\* one piece.
RootKey == <<"__root">>

DefaultName == <<"d", "e", "f", "a", "u", "l", "t">>

\* this.appenders: undefined, or an object whose keys are kept in insertion order
AppendersUndefined == [def |-> FALSE, keys |-> <<>>]

AppenderMap(keys) == [def |-> TRUE, keys |-> keys]

\* this.appenders ? Object.values(this.appenders) : []
AppenderValues(apps) == IF apps.def THEN apps.keys ELSE <<>>

\* obj[key] of a plain object: undefined when the key is missing
Lookup(obj, key) == IF key \in DOMAIN obj THEN obj[key] ELSE JsUndefined

\* obj[key] = value
Put(obj, key, value) ==
    [k \in (DOMAIN obj) \cup {key} |-> IF k = key THEN value ELSE obj[k]]

\* The entries of a sequence (a Map or an array) mapped one by one: forEach / map
MapSeq(s, Op(_)) == [i \in 1..Len(s) |-> Op(s[i])]

\* The content of the storage key: absent, text that is not JSON, or JSON text
\* (as the object it parses to: levels name -> value, appenders key list).
Absent == [kind |-> "absent", levels |-> <<>>, appenders |-> <<>>]

Malformed == [kind |-> "malformed", levels |-> <<>>, appenders |-> <<>>]

JsonItem(levels, keys) == [kind |-> "json", levels |-> levels, appenders |-> keys]

\* initLevels()
InitialStoredLevels == (RootKey :> DEFAULT_ROOT_LEVEL)

InitialRootLevel == getValidLevel(DEFAULT_ROOT_LEVEL)

\* Level[v] of a stored value: a name for the six ordinals, undefined otherwise
HasLevelName(v) == v.type = "number" /\ v.num \in Ordinals

\* JSON.stringify({levels: ..., appenders: Object.keys(this.appenders)}); a
\* property whose value is undefined is left out of the text.
Serialize(levels, apps) ==
    JsonItem([k \in {n \in DOMAIN levels : HasLevelName(levels[n])} |->
                 JsStr(LevelName(levels[k].num))],
             apps.keys)

\* a storeConfig that never writes
storeConfigNever(st, old, levels, apps) == old

\* a storeConfig that does not ask whether there is a storage
storeConfigUnguarded(st, old, levels, apps) == Serialize(levels, apps)

\* storeConfig(): what the storage key holds afterwards
storeConfig(st, old, levels, apps) ==
    IF st THEN Serialize(levels, apps) ELSE old

\* getValidAppender(name): the appender (named by its key), or undefined
IsValidAppender(reg, key) == key \in reg

\* a reduce that stores every requested key, resolved or not
ResolvedKeysUnfiltered(reg, keys, acc) == acc \o keys

\* reduce over a key list into an object: the keys that resolve, each once, in
\* the order of their first occurrence; undefined when none resolves.
RECURSIVE ResolvedKeys(_, _, _)
ResolvedKeys(reg, keys, acc) ==
    IF keys = <<>> THEN acc
    ELSE ResolvedKeys(reg, Tail(keys),
            IF IsValidAppender(reg, Head(keys)) /\ ~(\E i \in 1..Len(acc) : acc[i] = Head(keys))
            THEN Append(acc, Head(keys)) ELSE acc)

\* a reduce seeded with {} rather than undefined
ResolveAppendersFromEmptyObject(reg, keys) == AppenderMap(ResolvedKeys(reg, keys, <<>>))

ResolveAppenders(reg, keys) ==
    IF ResolvedKeys(reg, keys, <<>>) = <<>> THEN AppendersUndefined
    ELSE AppenderMap(ResolvedKeys(reg, keys, <<>>))

(***************************************************************************)
(* Selectors of setLogLevel.  A string selector is read as a regular       *)
(* expression: a piece "." stands for any character, and "*" repeats the   *)
(* piece before it; every other piece stands for itself.                   *)
(***************************************************************************)
\* arg.replace('*', '.*'): only the first '*' is replaced
ReplaceFirstStar(chars) ==
    IF \E i \in 1..Len(chars) : chars[i] = "*"
    THEN LET i == CHOOSE j \in 1..Len(chars) :
                    chars[j] = "*" /\ \A k \in 1..(j - 1) : chars[k] # "*"
         IN SubSeq(chars, 1, i - 1) \o <<".", "*">> \o SubSeq(chars, i + 1, Len(chars))
    ELSE chars

\* one pattern piece against one character
PieceMatches(p, c) == p = "." \/ p = c

\* the whole of text s matches pattern pat
RECURSIVE RegexMatches(_, _)
RegexMatches(pat, s) ==
    IF pat = <<>> THEN s = <<>>
    ELSE IF Len(pat) >= 2 /\ pat[2] = "*"
         THEN \/ RegexMatches(SubSeq(pat, 3, Len(pat)), s)
              \/ /\ s # <<>>
                 /\ PieceMatches(pat[1], s[1])
                 /\ RegexMatches(pat, Tail(s))
         ELSE /\ s # <<>>
              /\ PieceMatches(pat[1], s[1])
              /\ RegexMatches(Tail(pat), Tail(s))

\* a test that is not anchored: some part of the name matches
regexpTestUnanchored(arg, loggerName) ==
    \E i \in 1..(Len(loggerName) + 1) : \E j \in (i - 1)..Len(loggerName) :
        RegexMatches(arg, SubSeq(loggerName, i, j))

\* new RegExp('^' + arg + '$').test(loggerName)
regexpTest(arg, loggerName) == RegexMatches(arg, loggerName)

\* an index test that counts from one
indexTestFromOne(arg, index) == arg = index + 1

\* arg === index, index counting the cache entries from 0
indexTest(arg, index) == arg = index

\* a cache that is never hit
cachedIndexNever(loggers, theName) == 0

\* cachedLoggers.has(theName) / get(theName): the position of the entry, 0 for none
cachedIndex(loggers, theName) ==
    IF \E i \in 1..Len(loggers) : loggers[i].name = theName
    THEN CHOOSE i \in 1..Len(loggers) : loggers[i].name = theName
    ELSE 0

\* `last` tells how the most recent operation ended, for the outcomes a
\* specification observes (its set w), with the Logger getLogger returned or
\* the number of loggers setLogLevel reports (ref, otherwise 0); every other
\* operation leaves it Unobserved.
Unobserved == [op |-> "", outcome |-> "", ref |-> 0]

Did(w, op, outcome, ref) ==
    IF outcome \in w THEN [op |-> op, outcome |-> outcome, ref |-> ref] ELSE Unobserved

(***************************************************************************)
(* The operations of the factory.                                          *)
(***************************************************************************)
\* getLogger(identifier); identifier is a string (its characters) or anything else
GetLogger(w, identifier) ==
    LET theName == IF identifier.type # "string" \/ identifier.chars = <<>>
                   THEN DefaultName ELSE identifier.chars
        hit == cachedIndex(cachedLoggers, theName)
        stored == Lookup(storedLevels, theName)
        level == IF Truthy(stored) THEN stored ELSE JsNull
        lg == NewLogger(created + 1, theName, theRootLevel, level, AppenderValues(appenders))
    IN IF hit # 0
       THEN /\ last' = Did(w, "getLogger", "cache hit", cachedLoggers[hit].ref)
            /\ UNCHANGED <<factoryVars, logger, calls, lsVars>>
       ELSE /\ Len(cachedLoggers) < MaxLoggers
            /\ last' = Did(w, "getLogger", "cache miss", lg.ref)
            /\ cachedLoggers' = Append(cachedLoggers, lg)
            /\ created' = created + 1
            /\ firstInstance' = IF theName \in DOMAIN firstInstance THEN firstInstance
                                ELSE Put(firstInstance, theName, lg.ref)
            /\ UNCHANGED <<storedLevels, theRootLevel, appenders, registered,
                           storage, item, localStorage, logger, calls, lsVars>>

\* a clear that leaves the local level of the loggers alone
ClearedKeepingLevel(lg) == SetRootLevel(lg, InitialRootLevel)

\* clear(): what it does to one cached logger
Cleared(lg) == SetRootLevel(SetLevel(lg, JsNull), InitialRootLevel)

\* clear()
Clear(w) ==
    /\ last' = Did(w, "clear", "cleared", 0)
    /\ storedLevels' = InitialStoredLevels
    /\ theRootLevel' = InitialRootLevel
    /\ cachedLoggers' = MapSeq(cachedLoggers, Cleared)
    \* storeConfig() runs before this.appenders = {}
    /\ item' = storeConfig(storage, item, InitialStoredLevels, appenders)
    /\ appenders' = AppenderMap(<<>>)
    /\ UNCHANGED <<registered, storage, localStorage, created, firstInstance, logger, calls, lsVars>>

\* setLogLevel(arg, level); arg is a string (chars), a number (num) or anything else
SetLogLevel(w, arg, level) ==
    LET theLevel == getValidLevel(level)
        nameMode == arg.type = "string"
        pattern == ReplaceFirstStar(arg.chars)
        matched == {i \in 1..Len(cachedLoggers) :
                      \/ nameMode /\ regexpTest(pattern, cachedLoggers[i].name)
                      \/ ~nameMode /\ indexTest(arg.num, i - 1)}
        matchedNames == {cachedLoggers[i].name : i \in matched}
        newStored == [k \in (DOMAIN storedLevels) \cup matchedNames |->
                        IF k \in matchedNames THEN theLevel ELSE storedLevels[k]]
    IN IF theLevel.type \in {"null", "undefined"}
       THEN /\ last' = Did(w, "setLogLevel", "invalid level", 0)
            /\ UNCHANGED <<factoryVars, logger, calls, lsVars>>
       ELSE IF arg.type \notin {"string", "number"}
       THEN /\ last' = Did(w, "setLogLevel", "unsupported argument", 0)
            /\ UNCHANGED <<factoryVars, logger, calls, lsVars>>
       ELSE /\ last' = Did(w, "setLogLevel",
                           IF matched # {}
                           THEN IF nameMode THEN "set by name" ELSE "set by index"
                           ELSE IF nameMode THEN "no name matched" ELSE "no index found",
                           Cardinality(matched))
            /\ cachedLoggers' = [i \in 1..Len(cachedLoggers) |->
                                   IF i \in matched THEN SetLevel(cachedLoggers[i], theLevel)
                                   ELSE cachedLoggers[i]]
            /\ storedLevels' = newStored
            /\ item' = storeConfig(storage, item, newStored, appenders)
            /\ UNCHANGED <<theRootLevel, appenders, registered, storage, localStorage,
                           created, firstInstance, logger, calls, lsVars>>

\* setLogAppenders(...appenderTypes)
SetLogAppenders(w, appenderTypes) ==
    LET resolved == ResolveAppenders(registered, appenderTypes)
        withAppenders(lg) == [lg EXCEPT !.appenders = AppenderValues(resolved)]
    IN IF resolved.def
       THEN /\ last' = Did(w, "setLogAppenders", "appenders set", 0)
            /\ appenders' = resolved
            /\ cachedLoggers' = MapSeq(cachedLoggers, withAppenders)
            /\ item' = storeConfig(storage, item, storedLevels, resolved)
            /\ UNCHANGED <<storedLevels, theRootLevel, registered, storage, localStorage,
                           created, firstInstance, logger, calls, lsVars>>
       ELSE /\ last' = Did(w, "setLogAppenders", "no valid appenders", 0)
            /\ UNCHANGED <<factoryVars, logger, calls, lsVars>>

\* set level(level): the root level
SetFactoryLevel(w, level) ==
    LET theLevel == getValidLevel(level)
        withRoot(lg) == SetRootLevel(lg, theLevel)
        newStored == Put(storedLevels, RootKey, theLevel)
    IN IF theLevel.type = "null"
       THEN /\ last' = Did(w, "level=", "root level ignored", 0)
            /\ UNCHANGED <<factoryVars, logger, calls, lsVars>>
       ELSE /\ theRootLevel' = theLevel
            /\ cachedLoggers' = MapSeq(cachedLoggers, withRoot)
            /\ storedLevels' = newStored
            /\ item' = storeConfig(storage, item, newStored, appenders)
            /\ last' = Did(w, "level=", "root level set", 0)
            /\ UNCHANGED <<appenders, registered, storage, localStorage, created,
                           firstInstance, logger, calls, lsVars>>

\* registerAppender(name, appender)
RegisterAppender(w, name) ==
    /\ registered' = registered \cup {name}
    /\ last' = Did(w, "registerAppender", "registered", 0)
    /\ UNCHANGED <<storedLevels, cachedLoggers, theRootLevel, appenders, storage, item,
                   localStorage, created, firstInstance, logger, calls, lsVars>>

\* a restore that adopts the levels without asking for an appender
RestoredWithoutAppenders(st, it, reg, stored, root, apps) ==
    LET valid == IF it.kind = "json"
                 THEN {n \in DOMAIN it.levels : Truthy(getValidLevel(it.levels[n]))}
                 ELSE {}
    IN IF st /\ it.kind = "json" /\ RootKey \in valid
       THEN [storedLevels |-> [n \in valid |-> getValidLevel(it.levels[n])],
             theRootLevel |-> getValidLevel(it.levels[RootKey]),
             appenders |-> apps]
       ELSE IF st /\ it.kind # "absent"
       THEN [storedLevels |-> InitialStoredLevels, theRootLevel |-> InitialRootLevel,
             appenders |-> apps]
       ELSE [storedLevels |-> stored, theRootLevel |-> root, appenders |-> apps]

\* a restore that falls back to no appenders when it discards the record
RestoredToNoAppenders(st, it, reg, stored, root, apps) ==
    LET valid == IF it.kind = "json"
                 THEN {n \in DOMAIN it.levels : Truthy(getValidLevel(it.levels[n]))}
                 ELSE {}
        resolved == IF it.kind = "json" THEN ResolveAppenders(reg, it.appenders)
                    ELSE AppendersUndefined
    IN IF ~(st /\ it.kind # "absent")
       THEN [storedLevels |-> stored, theRootLevel |-> root, appenders |-> apps]
       ELSE IF RootKey \in valid /\ resolved.def
       THEN [storedLevels |-> [n \in valid |-> getValidLevel(it.levels[n])],
             theRootLevel |-> getValidLevel(it.levels[RootKey]),
             appenders |-> resolved]
       ELSE [storedLevels |-> InitialStoredLevels, theRootLevel |-> InitialRootLevel,
             appenders |-> AppenderMap(<<>>)]

\* restoreConfig(), up to the refresh of the cached loggers: the stored levels,
\* the root level and the active appenders it leaves
Restored(st, it, reg, stored, root, apps) ==
    LET present == st /\ it.kind # "absent"
        valid == IF it.kind = "json"
                 THEN {n \in DOMAIN it.levels : Truthy(getValidLevel(it.levels[n]))}
                 ELSE {}
        levels == [n \in valid |-> getValidLevel(it.levels[n])]
        rootLevel == IF it.kind = "json" /\ Truthy(Lookup(it.levels, RootKey))
                     THEN getValidLevel(it.levels[RootKey])
                     ELSE JsUndefined
        resolved == IF it.kind = "json" THEN ResolveAppenders(reg, it.appenders)
                    ELSE AppendersUndefined
    IN IF ~present
       THEN [storedLevels |-> stored, theRootLevel |-> root, appenders |-> apps]
       ELSE IF valid # {} /\ Truthy(rootLevel) /\ resolved.def
       THEN [storedLevels |-> levels, theRootLevel |-> rootLevel, appenders |-> resolved]
       ELSE [storedLevels |-> InitialStoredLevels, theRootLevel |-> InitialRootLevel,
             appenders |-> apps]

\* a refresh that leaves the root level of the logger alone
RefreshedKeepingRoot(lg, r) ==
    [SetLevel(lg, IF Truthy(Lookup(r.storedLevels, lg.name))
                  THEN r.storedLevels[lg.name] ELSE JsUndefined)
     EXCEPT !.appenders = AppenderValues(r.appenders)]

\* restoreConfig(): the refresh of one cached logger
Refreshed(lg, r) ==
    [SetRootLevel(
        SetLevel(lg, IF Truthy(Lookup(r.storedLevels, lg.name))
                     THEN r.storedLevels[lg.name] ELSE JsUndefined),
        r.theRootLevel)
     EXCEPT !.appenders = AppenderValues(r.appenders)]

\* restoreConfig()
RestoreConfig(w) ==
    LET r == Restored(storage, item, registered, storedLevels, theRootLevel, appenders)
        refresh(lg) == Refreshed(lg, r)
    IN /\ storedLevels' = r.storedLevels
       /\ theRootLevel' = r.theRootLevel
       /\ appenders' = r.appenders
       /\ cachedLoggers' = MapSeq(cachedLoggers, refresh)
       /\ last' = Did(w, "restoreConfig", "restored", 0)
       /\ UNCHANGED <<registered, storage, item, localStorage, created, firstInstance,
                       logger, calls, lsVars>>

\* LoggerFactory.init(window, storage, config): the storage passed is the one
\* the environment has (or none), rootLevel is config.rootLevel
FactoryInit(w, rootLevel) ==
    LET st == localStorage
        reg == registered \cup {"console"}
        \* this.theInstance.setLogAppenders('console'), with the storage of before
        apps == ResolveAppenders(reg, <<"console">>)
        withAppenders(lg) == [lg EXCEPT !.appenders = AppenderValues(apps)]
        loggers == MapSeq(cachedLoggers, withAppenders)
        written == storeConfig(storage, item, storedLevels, apps)
        \* if (config.rootLevel) this.theInstance.theRootLevel = config.rootLevel
        root == IF Truthy(rootLevel) THEN rootLevel ELSE theRootLevel
        r == Restored(st, written, reg, storedLevels, root, apps)
        refresh(lg) == Refreshed(lg, r)
    IN /\ registered' = reg
       /\ storage' = st
       /\ item' = written
       /\ storedLevels' = r.storedLevels
       /\ theRootLevel' = r.theRootLevel
       /\ appenders' = r.appenders
       /\ cachedLoggers' = MapSeq(loggers, refresh)
       /\ last' = Did(w, "init", "initialized", 0)
       /\ UNCHANGED <<localStorage, created, firstInstance, logger, calls, lsVars>>

(***************************************************************************)
(* class LocalStorageAppender (logger-localstorage-appender.ts): a         *)
(* rotating buffer of log entries kept under the storage key 'log'.        *)
(***************************************************************************)
\* count of stored log entries
LOG_ENTRY_COUNT == 200

\* the appender instances constructed on the one Storage
Instances == {"first", "second"}

\* the content of the storage key 'log': absent, text that is not JSON, the
\* JSON text of an array of entries, the JSON text of a truthy value that is
\* no array (an object, a number, a string), or that of a falsy value (null)
LogAbsent == [kind |-> "absent", entries |-> <<>>]

LogMalformed == [kind |-> "malformed", entries |-> <<>>]

LogArray(entries) == [kind |-> "array", entries |-> entries]

LogObject == [kind |-> "object", entries |-> <<>>]

LogNull == [kind |-> "null", entries |-> <<>>]

\* this.logCache: undefined until the first logging call, then the array of
\* entries, or the value hydrated from the key when that is no array
CacheUndefined == [def |-> FALSE, array |-> FALSE, entries |-> <<>>]

CacheOf(entries) == [def |-> TRUE, array |-> TRUE, entries |-> entries]

CacheNotArray == [def |-> TRUE, array |-> FALSE, entries |-> <<>>]

\* [`${new Date().toUTCString()} ${obj}`, ...(optionalObj ? optionalObj : [])];
\* the text is told apart by obj, the date is left out
LogEntry(obj, optionalObj) == <<obj>> \o (IF optionalObj.def THEN optionalObj.params ELSE <<>>)

\* ...optionalParams of the severity methods / no second argument of dir, dirxml
RestParams(params) == [def |-> TRUE, params |-> params]

NoParams == [def |-> FALSE, params |-> <<>>]

\* JSON.parse(localStorage.getItem('log')): getItem gives null for an absent
\* key, which parses to null; text that is no JSON throws
ParsedLog(it) ==
    CASE it.kind \in {"absent", "null"} -> [threw |-> FALSE, type |-> "null", entries |-> <<>>]
      [] it.kind = "malformed" -> [threw |-> TRUE, type |-> "undefined", entries |-> <<>>]
      [] it.kind = "object" -> [threw |-> FALSE, type |-> "object", entries |-> <<>>]
      [] OTHER -> [threw |-> FALSE, type |-> "array", entries |-> it.entries]

\* after the fill the cache is a truthy value without push: this.logCache
\* ? this.logCache : [] keeps what JSON.parse gave
HydratesNoArray(cache, it) ==
    IF cache.def THEN ~cache.array
    ELSE ~ParsedLog(it).threw /\ ParsedLog(it).type = "object"

\* a hydration that forgets the cache
HydratedEmpty(cache, it) == <<>>

\* fill cache if necessary
Hydrated(cache, it) ==
    IF cache.def THEN cache.entries
    ELSE IF ~ParsedLog(it).threw /\ ParsedLog(it).type = "array"
    THEN ParsedLog(it).entries
    ELSE <<>>

\* a rotation that starts one entry too late
RotatedAboveCapacity(entries) ==
    IF Len(entries) > LOG_ENTRY_COUNT THEN Tail(entries) ELSE entries

\* rotate log: if (this.logCache.length >= LOG_ENTRY_COUNT) this.logCache.shift()
Rotated(entries) ==
    IF Len(entries) >= LOG_ENTRY_COUNT THEN Tail(entries) ELSE entries

\* getLastLog(): the value returned
getLastLog(it) ==
    IF ParsedLog(it).threw THEN [type |-> "array", entries |-> <<>>]
    ELSE [type |-> ParsedLog(it).type, entries |-> ParsedLog(it).entries]

\* no appender call has returned anything yet / a logging call returns nothing
ReturnedNothing == [type |-> "void", entries |-> <<>>]

\* the call ended with a TypeError
Threw == [type |-> "threw", entries |-> <<>>]

\* logAndRotate(obj, optionalObj) on instance a, the appender holding a Storage
logAndRotate(a, obj, optionalObj) ==
    LET logCache == Append(Rotated(Hydrated(lsCache[a], lsItem)), LogEntry(obj, optionalObj))
    IN IF HydratesNoArray(lsCache[a], lsItem)
       THEN \* this.logCache.push is not a function
            /\ lsCache' = [lsCache EXCEPT ![a] = CacheNotArray]
            /\ lsCalls' = lsCalls + 1
            /\ lsReturned' = Threw
            /\ UNCHANGED <<lsItem, factoryVars, logger, calls, last>>
       ELSE /\ lsCache' = [lsCache EXCEPT ![a] = CacheOf(logCache)]
            /\ lsItem' = LogArray(logCache)
            /\ lsCalls' = lsCalls + 1
            /\ lsReturned' = ReturnedNothing
            /\ UNCHANGED <<factoryVars, logger, calls, last>>

\* The log bound: the logging calls a behaviour makes
MaxCalls == 351

\* error, warn, info, debug, trace, dir, dirxml: the message of the n-th call
\* is told apart by n
LsError(a) == lsCalls < MaxCalls /\ logAndRotate(a, lsCalls + 1, RestParams(<<>>))

LsWarn(a) == lsCalls < MaxCalls /\ logAndRotate(a, lsCalls + 1, RestParams(<<>>))

LsInfo(a) == lsCalls < MaxCalls /\ logAndRotate(a, lsCalls + 1, RestParams(<<>>))

LsDebug(a) == lsCalls < MaxCalls /\ logAndRotate(a, lsCalls + 1, RestParams(<<>>))

LsTrace(a) == lsCalls < MaxCalls /\ logAndRotate(a, lsCalls + 1, RestParams(<<>>))

LsDir(a) == lsCalls < MaxCalls /\ logAndRotate(a, lsCalls + 1, NoParams)

LsDirxml(a) == lsCalls < MaxCalls /\ logAndRotate(a, lsCalls + 1, NoParams)

\* getLastLog() on instance a
GetLastLog(a) ==
    /\ lsReturned' = getLastLog(lsItem)
    /\ UNCHANGED <<lsCache, lsItem, lsCalls, factoryVars, logger, calls, last>>

\* no appender has been used and the key 'log' is absent
LsIdle ==
    /\ lsCache = [a \in Instances |-> CacheUndefined]
    /\ lsItem = LogAbsent
    /\ lsCalls = 0
    /\ lsReturned = ReturnedNothing

\* entries an earlier session left under the key
OldEntries(n) == [j \in 1..n |-> <<0 - j>>]

\* what the key 'log' may hold when the appender is first used
InitialLogs ==
    {LogAbsent, LogMalformed}
        \cup {LogArray(OldEntries(n)) :
                n \in {0, 1, LOG_ENTRY_COUNT - 1, LOG_ENTRY_COUNT, LOG_ENTRY_COUNT + 1}}

\* every kind of content the key 'log' may hold at the first use
FirstUseLogs == InitialLogs \cup {LogObject, LogNull}

\* the calls on the appender instances in I
LsNext(I) ==
    \/ \E a \in I : LsError(a)
    \/ \E a \in I : LsWarn(a)
    \/ \E a \in I : LsInfo(a)
    \/ \E a \in I : LsDebug(a)
    \/ \E a \in I : LsTrace(a)
    \/ \E a \in I : LsDir(a)
    \/ \E a \in I : LsDirxml(a)
    \/ \E a \in I : GetLastLog(a)

(***************************************************************************)
(* The inputs of the model.                                                *)
(***************************************************************************)
\* logger names handed to getLogger
ValidNames == {<<"t", "a">>, <<"t", ".">>}

\* identifiers: the names, the empty string, and a value that is no string
Identifiers ==
    {[type |-> "string", chars |-> n] : n \in ValidNames \cup {<<>>}}
        \cup {[type |-> "undefined", chars |-> <<>>]}

StringSelector(chars) == [type |-> "string", chars |-> chars, num |-> 0]

IndexSelector(i) == [type |-> "number", chars |-> <<>>, num |-> i]

\* selectors: names, prefixes with one wildcard, a name of no logger, indices
\* (one past the last possible position included), and a value of another type
Selectors ==
    {StringSelector(c) : c \in {<<"t", "*">>, <<"t", ".", "*">>, <<"a", "*">>, <<"t", "a">>, <<"n">>}}
        \cup {IndexSelector(i) : i \in 0..MaxLoggers}
        \cup {[type |-> "undefined", chars |-> <<>>, num |-> 0]}

\* level arguments: valid ones (OFF among them), by ordinal and by name, and
\* invalid ones
LevelArgs == {JsNum(Level.OFF), JsStr("TRACE"), JsNum(500), JsNull}

\* config.rootLevel of init
ConfigRootLevels == {JsUndefined, JsNum(500), JsNum(Level.DEBUG)}

AppenderKeys == {"console", "ls", "blob"}

\* the key lists handed to setLogAppenders
RECURSIVE SeqsUpTo(_, _)
SeqsUpTo(S, n) ==
    IF n = 0 THEN {<<>>}
    ELSE SeqsUpTo(S, n - 1) \cup {Append(q, x) : q \in SeqsUpTo(S, n - 1), x \in S}

KeyLists == SeqsUpTo(AppenderKeys, MaxKeys)

\* what the storage key may hold when the process starts
ItemValid ==
    JsonItem((RootKey :> JsStr("TRACE")) @@ (<<"t", "a">> :> JsStr("DEBUG")), <<"console">>)

ItemBogus ==
    JsonItem((RootKey :> JsStr("INFO")) @@ (<<"t", "a">> :> JsStr("bogus")), <<"console">>)

\* a record with an entry that does not normalize next to an OFF entry
ItemBogusOff ==
    JsonItem((RootKey :> JsStr("INFO")) @@ (<<"t", "a">> :> JsStr("bogus"))
                 @@ (<<"t", ".">> :> JsStr("OFF")),
             <<"console">>)

\* a record without a __root entry
ItemNoRoot == JsonItem((<<"t", "a">> :> JsStr("DEBUG")), <<"console">>)

\* a record whose appender keys are registered nowhere
ItemUnresolvable ==
    JsonItem((RootKey :> JsStr("TRACE")) @@ (<<"t", "a">> :> JsStr("DEBUG")), <<"blob">>)

InitialItems == {Absent, ItemValid}

\* records an earlier session, another program or the user left damaged
CorruptItems == {ItemBogus, ItemBogusOff, Malformed, ItemNoRoot, ItemUnresolvable}

\* the free-standing Logger before it is used
IdleLogger == NewLogger(0, <<"testLogger">>, JsNum(Level.INFO), JsNull, <<>>)

(***************************************************************************)
(* Spec: the LoggerFactory singleton.                                      *)
(***************************************************************************)
\* private constructor() -> initLevels(); the field initialisers
FactoryNew ==
    /\ storedLevels = InitialStoredLevels
    /\ theRootLevel = InitialRootLevel
    /\ cachedLoggers = <<>>
    /\ appenders = AppendersUndefined
    /\ registered = {}
    /\ storage = FALSE
    /\ created = 0
    /\ firstInstance = <<>>

\* The environment has a Storage, whose key holds what an earlier session left.
Init ==
    /\ FactoryNew
    /\ localStorage = TRUE
    /\ item \in InitialItems
    /\ logger = IdleLogger
    /\ calls = <<>>
    /\ last = Unobserved
    /\ LsIdle

\* the operations of the factory, observing the outcomes w
Next(w) ==
    \/ \E id \in Identifiers : GetLogger(w, id)
    \/ \E arg \in Selectors, level \in LevelArgs : SetLogLevel(w, arg, level)
    \/ \E keys \in KeyLists : SetLogAppenders(w, keys)
    \/ \E level \in LevelArgs : SetFactoryLevel(w, level)
    \/ Clear(w)
    \/ RestoreConfig(w)
    \/ \E rootLevel \in ConfigRootLevels : FactoryInit(w, rootLevel)
    \/ RegisterAppender(w, "ls")

Spec == Init /\ [][Next({})]_vars

\* storeConfig() reads Object.keys(this.appenders): with a storage set the
\* appenders are never undefined
StoreConfigDefined == storage => appenders.def

(***************************************************************************)
(* SpecRotate: one LocalStorageAppender on a storage whose key 'log' holds *)
(* whatever an earlier session left.  SpecSingleWriter: the same with the  *)
(* key absent at the start.                                                *)
(***************************************************************************)
\* the factory and the Logger under test are left alone
InitRotate ==
    /\ FactoryNew
    /\ localStorage = TRUE
    /\ item = Absent
    /\ logger = IdleLogger
    /\ calls = <<>>
    /\ last = Unobserved
    /\ lsCache = [a \in Instances |-> CacheUndefined]
    /\ lsItem \in InitialLogs
    /\ lsCalls = 0
    /\ lsReturned = ReturnedNothing

SpecRotate == InitRotate /\ [][LsNext({"first"})]_vars

InitSingleWriter ==
    /\ FactoryNew
    /\ localStorage = TRUE
    /\ item = Absent
    /\ logger = IdleLogger
    /\ calls = <<>>
    /\ last = Unobserved
    /\ LsIdle

SpecSingleWriter == InitSingleWriter /\ [][LsNext({"first"})]_vars

(***************************************************************************)
(* SpecLogger: one Logger, built as the unit test builds it                *)
(* (new Logger('testLogger', Level.INFO, null, appenders)), whose level    *)
(* and rootLevel are assigned and whose methods are called.                *)
(***************************************************************************)
\* what is assigned to level: a Level, null or undefined
LocalLevels == Levels \cup {JsNull, JsUndefined}

\* the appender lists a Logger is built with
AppenderLists == SeqsUpTo({"console", "memory"}, MaxAppenders)

Messages == {"Bogus"}

\* the extra arguments of a call
ParamLists == SeqsUpTo({"theArg1", "theArg2"}, MaxParams)

\* the most recent call of a Logger method and its arguments
Called(op, msg, params) ==
    [op |-> op, outcome |-> "", ref |-> 0, msg |-> msg, params |-> params]

LoggerInit ==
    /\ FactoryNew
    /\ localStorage = TRUE
    /\ item = Absent
    /\ logger \in {NewLogger(0, <<"testLogger">>, JsNum(Level.INFO), JsNull, apps) :
                     apps \in AppenderLists}
    /\ calls = <<>>
    /\ last = Unobserved
    /\ LsIdle

\* logger.level = value
AssignLevel(value) ==
    /\ logger' = SetLevel(logger, value)
    /\ calls' = <<>>
    /\ last' = Unobserved
    /\ UNCHANGED <<factoryVars, lsVars>>

\* logger.rootLevel = value
AssignRootLevel(value) ==
    /\ logger' = SetRootLevel(logger, value)
    /\ calls' = <<>>
    /\ last' = Unobserved
    /\ UNCHANGED <<factoryVars, lsVars>>

\* error / warn / info / debug / trace (msg, ...optionalParams)
Severity(method, msg, optionalParams) ==
    /\ calls' = log(logger, SeverityLevel[method], method, msg, optionalParams, TRUE)
    /\ last' = Called(method, msg, optionalParams)
    /\ UNCHANGED <<factoryVars, logger, lsVars>>

\* dir / dirxml (obj, level)
Dir(method, obj, level) ==
    /\ calls' = log(logger, level, method, obj, <<>>, FALSE)
    /\ last' = Called(method, obj, <<>>)
    /\ UNCHANGED <<factoryVars, logger, lsVars>>

\* group(msg, ...optionalParams)
Group(msg, optionalParams) ==
    /\ calls' = log(logger, JsNum(Level.DEBUG), "group", msg, optionalParams, TRUE)
    /\ last' = Called("group", msg, optionalParams)
    /\ UNCHANGED <<factoryVars, logger, lsVars>>

\* groupEnd(): no message, no parameters
GroupEnd ==
    /\ calls' = log(logger, JsNum(Level.DEBUG), "groupEnd", "undefined", <<>>, TRUE)
    /\ last' = Called("groupEnd", "undefined", <<>>)
    /\ UNCHANGED <<factoryVars, logger, lsVars>>

LoggerNext ==
    \/ \E value \in LocalLevels : AssignLevel(value)
    \/ \E value \in Levels : AssignRootLevel(value)
    \/ \E method \in SeverityMethods, msg \in Messages, params \in ParamLists :
          Severity(method, msg, params)
    \/ \E method \in {"dir", "dirxml"}, level \in {JsNum(Level.DEBUG), JsNum(Level.ERROR)} :
          Dir(method, "anObject", level)
    \/ \E params \in ParamLists : Group("Bogus", params)
    \/ GroupEnd

SpecLogger == LoggerInit /\ [][LoggerNext]_vars

(***************************************************************************)
(* SpecLevel: getValidLevel applied to one value after another; calls      *)
(* keeps the call before the most recent one.                              *)
(***************************************************************************)
\* strings, numbers, null, undefined and booleans (what a JSON text or the
\* console hands over)
LevelInputs ==
    {JsStr(x) : x \in LevelNames \cup {"bogus", "trace"} \cup NumericStrings}
        \cup {JsNum(n) : n \in (0 - 1)..(Level.TRACE + 1)}
        \cup {JsNum(100), JsNull, JsUndefined, JsBool(TRUE), JsBool(FALSE)}

Normalized(value, result) ==
    [op |-> "getValidLevel", outcome |-> "", ref |-> 0, arg |-> value, ret |-> result]

LevelInit ==
    /\ FactoryNew
    /\ localStorage = TRUE
    /\ item = Absent
    /\ logger = IdleLogger
    /\ calls = <<>>
    /\ last = Unobserved
    /\ LsIdle

\* getValidLevel(value)
Normalize(value) ==
    /\ last' = Normalized(value, getValidLevel(value))
    /\ calls' = IF last = Unobserved THEN <<>> ELSE <<last>>
    /\ UNCHANGED <<factoryVars, logger, lsVars>>

LevelNext == \E value \in LevelInputs : Normalize(value)

SpecLevel == LevelInit /\ [][LevelNext]_vars

(***************************************************************************)
(* The Logger and the Level model (SpecLogger, SpecLevel)                  *)
(***************************************************************************)
\* C2: the effective level of a Logger equals its local level whenever the
\* local level is one of the six Levels, and equals the root level only when
\* the local level is absent (null or undefined).
C2_EffectiveIsLocalWhenPresent ==
    /\ logger.level \in Levels => logger.effectiveLevel = logger.level
    /\ logger.level \in {JsNull, JsUndefined} => logger.effectiveLevel = logger.rootLevel
    /\ logger.effectiveLevel = logger.rootLevel /\ logger.rootLevel # logger.level
          => logger.level \in {JsNull, JsUndefined}

\* the severity call now recorded passes the level check
SeverityPasses == SeverityLevel[last.op].num <= logger.effectiveLevel.num

\* C3: a severity method invokes the appenders of its Logger if and only if
\* its fixed Level is <= the effective level at the time of the call; when
\* the check fails no appender method is invoked at all.
C3_SeverityGatedByEffectiveLevel ==
    last.op \in SeverityMethods =>
        /\ SeverityPasses => Len(calls) = Len(logger.appenders)
        /\ ~SeverityPasses => calls = <<>>
        /\ calls # <<>> => SeverityPasses

\* C3 witness: a debug call on a Logger with two appenders whose effective
\* level is INFO reaches no appender
C3_Witness ==
    /\ last.op = "debug"
    /\ logger.effectiveLevel = JsNum(Level.INFO)
    /\ Len(logger.appenders) = 2
    /\ calls = <<>>

\* the name printed for each severity method
SeverityName ==
    [error |-> "ERROR", warn |-> "WARN", info |-> "INFO", debug |-> "DEBUG", trace |-> "TRACE"]

\* C4: a passing severity call on a Logger with N appenders invokes the
\* matching method on each of the N appenders exactly once, in list order,
\* with first argument "[LEVELNAME] - <loggerName>: <message>" followed by
\* exactly the extra arguments supplied, in their original order.
C4_FanOutFormattedInOrder ==
    last.op \in SeverityMethods /\ SeverityPasses =>
        /\ Len(calls) = Len(logger.appenders)
        /\ \A i \in 1..Len(calls) :
              /\ calls[i].appender = logger.appenders[i]
              /\ calls[i].fn = last.op
              /\ Len(calls[i].args) = 1 + Len(last.params)
              /\ calls[i].args[1]
                    = <<"[", SeverityName[last.op], "] - ", logger.name, ": ", last.msg>>
              /\ \A k \in 1..Len(last.params) : calls[i].args[k + 1] = last.params[k]

\* C4 witness: a passing warn call with two different extra arguments on a
\* Logger with two different appenders
C4_Witness ==
    /\ last.op = "warn"
    /\ SeverityPasses
    /\ logger.appenders = <<"memory", "console">>
    /\ last.params = <<"theArg2", "theArg1">>
    /\ Len(calls) = 2

\* what the claim calls invalid input: an unrecognized string, a numeric
\* string, an out-of-range number, null, undefined
InvalidLevelInput(v) ==
    \/ v.type = "string" /\ v.str \notin LevelNames
    \/ v.type = "number" /\ v.num \notin Ordinals
    \/ v.type \in {"null", "undefined"}

\* C5: getValidLevel maps each Level name and each canonical ordinal to the
\* same ordinal, returns null for an unrecognized string, an out-of-range
\* number, a numeric string, null and undefined, and never returns a value
\* outside the six Levels plus null.
C5_NormalizeTotalOntoLevelsOrNull ==
    last.op = "getValidLevel" =>
        /\ last.arg.type = "string" /\ last.arg.str \in LevelNames
              => last.ret = JsNum(Level[last.arg.str])
        /\ last.arg \in Levels => last.ret = last.arg
        /\ \A i \in 1..Len(calls) :
              calls[i].arg.type = "string" /\ calls[i].arg.str \in LevelNames
                  /\ last.arg = JsNum(Level[calls[i].arg.str])
              => calls[i].ret = last.ret
        /\ InvalidLevelInput(last.arg) => last.ret = JsNull
        /\ last.ret \in Levels \cup {JsNull}

(***************************************************************************)
(* The LoggerFactory: one specification per observed set of outcomes.      *)
(***************************************************************************)
\* the parts of the factory the claims speak of: the cached loggers, the
\* stored overrides, the root level, the active appenders, the persisted record
Configuration == <<cachedLoggers, storedLevels, theRootLevel, appenders, item>>

\* the name getLogger uses for an identifier
NameOf(identifier) ==
    IF identifier.type = "string" /\ identifier.chars # <<>>
    THEN identifier.chars ELSE <<"d", "e", "f", "a", "u", "l", "t">>

\* a level argument that names or is one of the six Levels, and that Level
IsLevel(level) ==
    \/ level.type = "string" /\ level.str \in LevelNames
    \/ level.type = "number" /\ level.num \in 0..5

LevelOf(level) == IF level.type = "string" THEN JsNum(Level[level.str]) ELSE level

CacheOutcomes == {"cache hit"}

SpecGetLogger == Init /\ [][Next(CacheOutcomes)]_vars

\* every name once handed out is still cached under the instance first returned
FirstInstanceKept ==
    \A n \in DOMAIN firstInstance :
        \E i \in 1..Len(cachedLoggers) :
            cachedLoggers[i].name = n /\ cachedLoggers[i].ref = firstInstance[n]

\* C1: whatever getLogger, setLogLevel, setLogAppenders, root-level
\* assignment, clear and restoreConfig calls came before, getLogger(name)
\* returns the Logger instance the first getLogger(name) returned, and a
\* cache hit changes no logger and no factory state.
C1_GetLoggerReturnsFirstInstance ==
    [][/\ FirstInstanceKept'
       /\ \A id \in Identifiers :
             NameOf(id) \in DOMAIN firstInstance /\ GetLogger(CacheOutcomes, id) =>
                 /\ last'.outcome = "cache hit"
                 /\ last'.ref = firstInstance[NameOf(id)]
                 /\ UNCHANGED factoryVars]_vars

\* C1 witness: after a clear, a second logger's creation and a level set, a
\* lookup hits the cache and returns the first logger created
C1_Witness ==
    /\ last.outcome = "cache hit"
    /\ last.ref = 1
    /\ Len(cachedLoggers) = 2
    /\ appenders = AppenderMap(<<>>)
    /\ cachedLoggers[1].level = JsNum(Level.TRACE)

InvalidLevelOutcomes == {"invalid level"}

SpecInvalidLevel == Init /\ [][Next(InvalidLevelOutcomes)]_vars

IndexOutcomes == {"set by index", "no index found"}

SpecIndex == Init /\ [][Next(IndexOutcomes)]_vars

\* C7: setLogLevel(i, L) with a valid level L sets the local override and
\* the stored override of exactly the logger created i-th (0-based) and of
\* no other; an i outside 0..n-1 matches nothing.  The position of a logger
\* never changes as loggers are created or clear is called.
C7_IndexSelectsExactlyOne ==
    [][/\ \A k \in 1..Len(cachedLoggers) :
             /\ k <= Len(cachedLoggers')
             /\ cachedLoggers'[k].ref = cachedLoggers[k].ref
             /\ cachedLoggers'[k].name = cachedLoggers[k].name
       /\ \A k \in 1..Len(cachedLoggers') : cachedLoggers'[k].ref = k
       /\ \A i \in 0..MaxLoggers, level \in LevelArgs :
             IsLevel(level) /\ SetLogLevel(IndexOutcomes, IndexSelector(i), level) =>
                 /\ Len(cachedLoggers') = Len(cachedLoggers)
                 /\ \A k \in 1..Len(cachedLoggers) :
                       IF k = i + 1
                       THEN /\ cachedLoggers'[k].level = LevelOf(level)
                            /\ storedLevels'[cachedLoggers[k].name] = LevelOf(level)
                            /\ last'.outcome = "set by index"
                       ELSE /\ cachedLoggers'[k] = cachedLoggers[k]
                            /\ Lookup(storedLevels', cachedLoggers[k].name)
                                  = Lookup(storedLevels, cachedLoggers[k].name)
                 /\ i >= Len(cachedLoggers) =>
                       /\ last'.outcome = "no index found"
                       /\ UNCHANGED <<cachedLoggers, storedLevels>>]_vars

\* C7 witness: index 1 set the second of two loggers, the first keeps no
\* override
C7_Witness ==
    /\ last.outcome = "set by index"
    /\ Len(cachedLoggers) = 2
    /\ cachedLoggers[2].level \in Levels
    /\ cachedLoggers[1].level = JsNull
    /\ ~Truthy(Lookup(storedLevels, cachedLoggers[1].name))

NameOutcomes == {"set by name"}

SpecName == Init /\ [][Next(NameOutcomes)]_vars

\* the prefixes P of the selectors P*
Prefixes == {<<"t">>, <<"t", ".">>, <<"a">>}

\* name starts with P, character by character
StartsWith(name, P) == Len(name) >= Len(P) /\ SubSeq(name, 1, Len(P)) = P

\* name starts with P when a "." of P stands for any one character
StartsWithPattern(name, P) ==
    Len(name) >= Len(P) /\ \A j \in 1..Len(P) : P[j] = "." \/ P[j] = name[j]

\* setLogLevel(P*, level) sets the local and the stored override of exactly
\* the cached loggers whose name Selected(name, P) holds for
SetsExactly(P, level, Selected(_, _)) ==
    IsLevel(level) /\ SetLogLevel(NameOutcomes, StringSelector(Append(P, "*")), level) =>
        /\ Len(cachedLoggers') = Len(cachedLoggers)
        /\ \A k \in 1..Len(cachedLoggers) :
              IF Selected(cachedLoggers[k].name, P)
              THEN /\ cachedLoggers'[k].level = LevelOf(level)
                   /\ storedLevels'[cachedLoggers[k].name] = LevelOf(level)
              ELSE /\ cachedLoggers'[k] = cachedLoggers[k]
                   /\ Lookup(storedLevels', cachedLoggers[k].name)
                         = Lookup(storedLevels, cachedLoggers[k].name)

NoMatchOutcomes == {"no name matched", "no index found"}

SpecNoMatch == Init /\ [][Next(NoMatchOutcomes)]_vars

\* C9: a setLogLevel call with a valid level whose selector matches no
\* cached logger leaves every logger's local and effective level, the stored
\* overrides, the root level, the active appenders and the persisted record
\* as they were, in every reachable state.
C9_NoMatchChangesNothing ==
    [][last'.outcome \in NoMatchOutcomes => UNCHANGED Configuration]_vars

RejectionOutcomes == {"no valid appenders"}

SpecAppenders == Init /\ [][Next(RejectionOutcomes)]_vars

\* C10: setLogAppenders with keys none of which is registered leaves the
\* active appenders, every cached logger's appender list and the persisted
\* record unchanged, and returns the rejection message.
C10_UnregisteredKeysRejected ==
    [][\A keys \in KeyLists :
          (\A j \in 1..Len(keys) : keys[j] \notin registered)
              /\ SetLogAppenders(RejectionOutcomes, keys)
          => /\ last'.outcome = "no valid appenders"
             /\ UNCHANGED Configuration]_vars

\* C10 witness: keys were rejected while an appender was active, a logger
\* cached and a record persisted
C10_Witness ==
    /\ last.outcome = "no valid appenders"
    /\ appenders.keys # <<>>
    /\ Len(cachedLoggers) >= 1
    /\ cachedLoggers[1].appenders # <<>>
    /\ item.kind = "json"

SetOutcomes == {"appenders set"}

SpecAppendersSet == Init /\ [][Next(SetOutcomes)]_vars

\* the requested keys that are registered, each once, in the order of their
\* first occurrence in the request
RequestedAndRegistered(keys) ==
    LET first == {j \in 1..Len(keys) :
                    keys[j] \in registered /\ \A i \in 1..(j - 1) : keys[i] # keys[j]}
    IN [n \in 1..Cardinality(first) |->
          keys[CHOOSE j \in first : Cardinality({i \in first : i <= j}) = n]]

\* setLogAppenders(keys) with a registered key among them replaces the active
\* appenders and every cached logger's appenders by the requested keys that
\* resolved
ReplacesAppenders(keys) ==
    /\ appenders' = AppenderMap(RequestedAndRegistered(keys))
    /\ Len(cachedLoggers') = Len(cachedLoggers)
    /\ \A k \in 1..Len(cachedLoggers') :
          cachedLoggers'[k].appenders = RequestedAndRegistered(keys)
    /\ last'.outcome = "appenders set"

\* C11 as stated: setLogAppenders with at least one registered key replaces
\* the active appender map wholesale (the active keys are exactly the
\* requested keys that resolved), every cached logger's appender list holds
\* exactly the new appenders, and the persisted record's appenders list
\* equals the new active keys.
C11_SetAppendersReplacesAndPersists ==
    [][\A keys \in KeyLists :
          (\E j \in 1..Len(keys) : keys[j] \in registered)
              /\ SetLogAppenders(SetOutcomes, keys)
          => /\ ReplacesAppenders(keys)
             /\ item'.kind = "json"
             /\ item'.appenders = RequestedAndRegistered(keys)]_vars

\* C11, amended: the persisted record follows only when a storage is
\* configured; without one the record is left as it was.
C11_SetAppendersReplacesAndPersistsWithStorage ==
    [][\A keys \in KeyLists :
          (\E j \in 1..Len(keys) : keys[j] \in registered)
              /\ SetLogAppenders(SetOutcomes, keys)
          => /\ ReplacesAppenders(keys)
             /\ storage => item'.kind = "json"
                           /\ item'.appenders = RequestedAndRegistered(keys)
             /\ ~storage => item' = item]_vars

\* C11 witness: with a storage configured, "ls" replaced "console" as the
\* only active appender, in both cached loggers and in the persisted record
C11_Witness ==
    /\ last.outcome = "appenders set"
    /\ storage
    /\ appenders = AppenderMap(<<"ls">>)
    /\ Len(cachedLoggers) = 2
    /\ item.kind = "json"
    /\ item.appenders = <<"ls">>

ClearOutcomes == {"cleared"}

SpecClear == Init /\ [][Next(ClearOutcomes)]_vars

\* C12: after clear() the root level is DEFAULT_ROOT_LEVEL (INFO), the
\* stored overrides hold only __root = INFO, every cached logger has no
\* local override and rootLevel INFO, the active appender set is empty, and
\* every cached name still maps to the same Logger instance.
C12_ClearResetsLevelsKeepsIdentity ==
    [][Clear(ClearOutcomes) =>
          /\ theRootLevel' = JsNum(Level.INFO)
          /\ DOMAIN storedLevels' = {<<"__root">>}
          /\ storedLevels'[<<"__root">>] = JsNum(Level.INFO)
          /\ appenders'.def /\ appenders'.keys = <<>>
          /\ Len(cachedLoggers') = Len(cachedLoggers)
          /\ \A k \in 1..Len(cachedLoggers) :
                /\ cachedLoggers'[k].level = JsNull
                /\ cachedLoggers'[k].rootLevel = JsNum(Level.INFO)
                /\ cachedLoggers'[k].effectiveLevel = JsNum(Level.INFO)
                /\ cachedLoggers'[k].ref = cachedLoggers[k].ref
                /\ cachedLoggers'[k].name = cachedLoggers[k].name
          /\ FirstInstanceKept']_vars

\* C12 witness: clear() has just returned with two loggers cached and a
\* storage configured
C12_Witness ==
    /\ last.outcome = "cleared"
    /\ storage
    /\ Len(cachedLoggers) = 2
    /\ cachedLoggers[1].level = JsNull /\ cachedLoggers[2].level = JsNull
    /\ theRootLevel = JsNum(Level.INFO)

\* the persisted record is the serialization of the in-memory state: its
\* levels are the stored overrides as level names, its appenders the keys of
\* the active appender set
RecordMatchesMemory ==
    /\ item.kind = "json"
    /\ DOMAIN item.levels = DOMAIN storedLevels
    /\ \A n \in DOMAIN storedLevels :
          /\ storedLevels[n].type = "number"
          /\ storedLevels[n].num \in 0..5
          /\ item.levels[n] = JsStr(LevelName(storedLevels[n].num))
    /\ item.appenders = AppenderValues(appenders)

\* C13: with a storage configured, right after setLogLevel (valid level),
\* setLogAppenders (a key resolved), root-level assignment (valid level) and
\* clear, the persisted record equals the serialization of the in-memory
\* state.
C13_RecordMatchesMemoryAfterMutation ==
    [][/\ storage
       /\ \/ Clear(ClearOutcomes)
          \/ \E level \in LevelArgs : IsLevel(level) /\ SetFactoryLevel(ClearOutcomes, level)
          \/ \E keys \in KeyLists :
                (\E j \in 1..Len(keys) : keys[j] \in registered)
                    /\ SetLogAppenders(ClearOutcomes, keys)
          \/ \E arg \in Selectors, level \in LevelArgs :
                IsLevel(level) /\ arg.type \in {"string", "number"}
                    /\ SetLogLevel(ClearOutcomes, arg, level)
       => RecordMatchesMemory']_vars

\* C14: after any sequence of public factory operations storedLevels.__root
\* equals theRootLevel.
C14_RootEntryEqualsRootLevel == storedLevels[<<"__root">>] = theRootLevel

RootLevelOutcomes == {"root level set"}

SpecRootLevel == Init /\ [][Next(RootLevelOutcomes)]_vars

\* C15: after any factory operation returns, every cached logger's rootLevel
\* equals the factory's theRootLevel.
C15_LoggersShareRootLevel ==
    \A k \in 1..Len(cachedLoggers) : cachedLoggers[k].rootLevel = theRootLevel

\* C15 witness: the root level has just been set to OFF with two loggers
\* cached, which were created under another root level
C15_Witness ==
    /\ last.outcome = "root level set"
    /\ Len(cachedLoggers) = 2
    /\ theRootLevel = JsNum(Level.OFF)
    /\ cachedLoggers[1].rootLevel = JsNum(Level.OFF)
    /\ cachedLoggers[2].rootLevel = JsNum(Level.OFF)

\* C16: after setLogAppenders, clear, restoreConfig and init return, every
\* cached logger's appender list holds exactly the appenders of the active
\* appender set; after clear() every cached logger has an empty appender
\* list and a passing log call reaches no appender.
C16_LoggersHoldActiveAppenders ==
    [][/\ \/ Clear(ClearOutcomes)
          \/ RestoreConfig(ClearOutcomes)
          \/ \E keys \in KeyLists : SetLogAppenders(ClearOutcomes, keys)
          \/ \E rootLevel \in ConfigRootLevels : FactoryInit(ClearOutcomes, rootLevel)
          => \A k \in 1..Len(cachedLoggers') :
                cachedLoggers'[k].appenders = AppenderValues(appenders')
       /\ Clear(ClearOutcomes)
          => \A k \in 1..Len(cachedLoggers') :
                /\ cachedLoggers'[k].appenders = <<>>
                /\ log(cachedLoggers'[k], JsNum(Level.ERROR), "error", "Bogus", <<>>, TRUE)
                      = <<>>]_vars

\* C17: with a storage configured, setting a logger's or the root's level
\* to any of the six Levels and then restoring from storage yields the same
\* stored overrides and root level, and the loggers of the names set have
\* that level as their local override.
C17_RestoreAfterSetIsIdentity ==
    [][/\ storage
       /\ last.outcome \in {"root level set", "set by name", "set by index"}
       /\ RestoreConfig(RootLevelOutcomes)
       => /\ storedLevels' = storedLevels
          /\ theRootLevel' = theRootLevel
          /\ \A k \in 1..Len(cachedLoggers') :
                cachedLoggers'[k].name \in DOMAIN storedLevels
                    => cachedLoggers'[k].level = storedLevels[cachedLoggers'[k].name]]_vars

(***************************************************************************)
(* SpecRestore: the factory started on a storage whose key holds a damaged *)
(* record.                                                                 *)
(***************************************************************************)
InitCorrupt ==
    /\ FactoryNew
    /\ localStorage = TRUE
    /\ item \in CorruptItems
    /\ logger = IdleLogger
    /\ calls = <<>>
    /\ last = Unobserved
    /\ LsIdle

RestoreOutcomes == {"restored"}

SpecRestore == InitCorrupt /\ [][Next(RestoreOutcomes)]_vars

\* a step that restores from the storage: restoreConfig(), or init (which
\* ends with it); the record read is the one the storage holds afterwards
RestoresFromStorage ==
    /\ \/ RestoreConfig(RestoreOutcomes)
       \/ \E rootLevel \in ConfigRootLevels : FactoryInit(RestoreOutcomes, rootLevel)
    /\ storage'

\* the level a record's entry names, if it names one
NamesLevel(v) == v.type = "string" /\ v.str \in LevelNames

\* the record has a valid __root level and an appender key that resolves
RecordAdoptable(it, reg) ==
    /\ it.kind = "json"
    /\ <<"__root">> \in DOMAIN it.levels
    /\ NamesLevel(it.levels[<<"__root">>])
    /\ \E j \in 1..Len(it.appenders) : it.appenders[j] \in reg

\* C18: restoring a record with a valid __root level, a resolvable appender
\* key and a logger entry whose level string does not normalize drops only
\* that entry: its logger has no stored and no local override, while the
\* record's root level, its other valid level entries and its resolvable
\* appenders are adopted.
C18_RestoreDropsOnlyInvalidEntries ==
    [][/\ RestoresFromStorage
       /\ RecordAdoptable(item', registered')
       /\ \E n \in DOMAIN item'.levels : ~NamesLevel(item'.levels[n])
       => /\ \A n \in DOMAIN item'.levels :
                IF NamesLevel(item'.levels[n])
                THEN /\ n \in DOMAIN storedLevels'
                     /\ storedLevels'[n] = JsNum(Level[item'.levels[n].str])
                ELSE n \notin DOMAIN storedLevels'
          /\ theRootLevel' = JsNum(Level[item'.levels[<<"__root">>].str])
          /\ appenders'.def
          /\ \A key \in AppenderKeys :
                (\E j \in 1..Len(appenders'.keys) : appenders'.keys[j] = key)
                    <=> /\ key \in registered'
                        /\ \E j \in 1..Len(item'.appenders) : item'.appenders[j] = key
          /\ \A k \in 1..Len(cachedLoggers') :
                ~NamesLevel(Lookup(item'.levels, cachedLoggers'[k].name))
                    => /\ cachedLoggers'[k].level \in {JsNull, JsUndefined}
                       /\ cachedLoggers'[k].effectiveLevel = theRootLevel']_vars

\* the record is present but malformed, lacks a __root entry that
\* normalizes, or has no appender key that resolves
RecordDiscardable(it, reg) ==
    \/ it.kind = "malformed"
    \/ /\ it.kind = "json"
       /\ \/ <<"__root">> \notin DOMAIN it.levels
          \/ ~NamesLevel(Lookup(it.levels, <<"__root">>))
          \/ \A j \in 1..Len(it.appenders) : it.appenders[j] \notin reg

C20_DiscardedRecordLeavesNoAppenders ==
    [][RestoresFromStorage /\ RecordDiscardable(item', registered')
       => /\ AppenderValues(appenders') = <<>>
          /\ \A k \in 1..Len(cachedLoggers') : cachedLoggers'[k].appenders = <<>>]_vars

(***************************************************************************)
(* SpecRestoreAbsent: restores of a factory whose storage key was absent   *)
(* or valid when the process started.                                      *)
(***************************************************************************)
SpecRestoreAbsent == Init /\ [][Next(RestoreOutcomes)]_vars

\* C21: restoreConfig treats an absent storage key like a malformed record:
\* whatever the factory held before, after a restore with the key absent
\* the root level is DEFAULT_ROOT_LEVEL and no logger has a stored or local
\* override.
C21_AbsentKeyResetsToDefaults ==
    [][RestoresFromStorage /\ item'.kind = "absent"
       => /\ theRootLevel' = JsNum(Level.INFO)
          /\ DOMAIN storedLevels' = {<<"__root">>}
          /\ storedLevels'[<<"__root">>] = JsNum(Level.INFO)
          /\ \A k \in 1..Len(cachedLoggers') :
                cachedLoggers'[k].level \in {JsNull, JsUndefined}]_vars

\* a step that ends with restoreConfig's refresh: restoreConfig() or init
RestoreReturns ==
    \/ RestoreConfig(RestoreOutcomes)
    \/ \E rootLevel \in ConfigRootLevels : FactoryInit(RestoreOutcomes, rootLevel)

\* C22: after restoreConfig returns, adopted, discarded or absent, every
\* cached logger has local level = the stored override for its name if one
\* exists and none otherwise, rootLevel = the resolved root level, appender
\* list = the resolved active appenders.
C22_RestoreRefreshesEveryLogger ==
    [][RestoreReturns
       => \A k \in 1..Len(cachedLoggers') :
             /\ IF cachedLoggers'[k].name \in DOMAIN storedLevels'
                THEN cachedLoggers'[k].level = storedLevels'[cachedLoggers'[k].name]
                ELSE cachedLoggers'[k].level \in {JsNull, JsUndefined}
             /\ cachedLoggers'[k].rootLevel = theRootLevel'
             /\ cachedLoggers'[k].appenders = AppenderValues(appenders')]_vars

\* what assigning the valid level L to the root level does in memory
RootLevelAssigned(L) ==
    /\ theRootLevel' = L
    /\ storedLevels' = Put(storedLevels, <<"__root">>, L)
    /\ Len(cachedLoggers') = Len(cachedLoggers)
    /\ \A k \in 1..Len(cachedLoggers) :
          /\ cachedLoggers'[k].rootLevel = L
          /\ cachedLoggers'[k].level = cachedLoggers[k].level
          /\ cachedLoggers'[k].ref = cachedLoggers[k].ref
    /\ UNCHANGED <<appenders, registered, storage>>

MissOutcomes == {"cache miss"}

SpecCacheMiss == Init /\ [][Next(MissOutcomes)]_vars

InitAnyItem ==
    /\ FactoryNew
    /\ localStorage = TRUE
    /\ item \in InitialItems \cup CorruptItems
    /\ logger = IdleLogger
    /\ calls = <<>>
    /\ last = Unobserved
    /\ LsIdle

InitOutcomes == {"initialized"}

SpecInit == InitAnyItem /\ [][Next(InitOutcomes)]_vars

\* C27: immediately after init returns, for every content of the storage
\* and every prior factory state, the factory's active appender set is
\* non-empty and every cached logger has at least one appender.
C27_InitLeavesAnAppender ==
    last.outcome = "initialized"
        => /\ appenders.def
           /\ Len(appenders.keys) >= 1
           /\ \A k \in 1..Len(cachedLoggers) : Len(cachedLoggers[k].appenders) >= 1

\* C27 witness: init has just run on a malformed record with two loggers
\* cached, after the active appenders had been emptied by a clear
C27_Witness ==
    /\ last.outcome = "initialized"
    /\ item = Malformed
    /\ storage
    /\ Len(cachedLoggers) = 2
    /\ appenders = AppenderMap(<<"console">>)

\* C30 as stated: the root level is always a valid Level: theRootLevel and
\* every cached logger's rootLevel are one of the six canonical Level
\* values.
C30_RootLevelIsALevel ==
    /\ IsLevel(theRootLevel)
    /\ theRootLevel.type = "number"
    /\ \A k \in 1..Len(cachedLoggers) :
          /\ IsLevel(cachedLoggers[k].rootLevel)
          /\ cachedLoggers[k].rootLevel.type = "number"

(***************************************************************************)
(* The LocalStorageAppender (SpecRotate, SpecSingleWriter)                 *)
(***************************************************************************)
\* C24 as stated: the rotating log buffer never exceeds its capacity: after
\* any sequence of logging calls, whatever array the storage key held when
\* the appender first hydrated, the in-memory cache and the stored blob have
\* at most 200 entries.
C24_BufferWithinCapacity ==
    lsCalls >= 1
        => /\ \A a \in Instances : Len(lsCache[a].entries) <= 200
           /\ lsItem.kind = "array"
           /\ Len(lsItem.entries) <= 200

\* the entries of the calls from..to, one call after the other
EntriesOfCalls(from, to) == [j \in 1..(to - from + 1) |-> <<from + j - 1>>]

\* C25: with one appender instance as the only writer and the storage key
\* initially absent, after n logging calls the stored blob holds exactly the
\* entries of the most recent min(n, 200) calls, oldest first, in call
\* order; with n = 350 the first retained entry is that of call 151.
C25_BlobHoldsMostRecentCalls ==
    lsCalls >= 1
        => /\ lsItem.kind = "array"
           /\ lsItem.entries
                 = EntriesOfCalls(IF lsCalls > 200 THEN lsCalls - 199 ELSE 1, lsCalls)
           /\ lsCalls = 350 => lsItem.entries[1] = <<151>>

\* C25 witness: 350 calls were made, the blob holds 200 entries and starts
\* with that of call 151
C25_Witness ==
    /\ lsCalls = 350
    /\ lsItem.kind = "array"
    /\ Len(lsItem.entries) = 200
    /\ lsItem.entries[1] = <<151>>
    /\ lsItem.entries[200] = <<350>>

\* C28 as stated: getLastLog returns the full stored entry sequence when
\* the storage key holds one, and an empty sequence both when the key is
\* absent and when its content fails to parse; it never returns null.
C28_GetLastLogReturnsSequence ==
    lsReturned # ReturnedNothing
        => /\ lsReturned.type = "array"
           /\ lsReturned.entries = IF lsItem.kind = "array" THEN lsItem.entries ELSE <<>>

(***************************************************************************)
(* SpecRootName: the factory used without setLogLevel, the name '__root'   *)
(* among the names handed to getLogger.                                    *)
(***************************************************************************)
\* getLogger('__root')
RootNameIdentifier == [type |-> "string", chars |-> RootKey]

\* the operations of the factory other than setLogLevel
NextRootName(w) ==
    \/ \E id \in Identifiers \cup {RootNameIdentifier} : GetLogger(w, id)
    \/ \E keys \in KeyLists : SetLogAppenders(w, keys)
    \/ \E level \in LevelArgs : SetFactoryLevel(w, level)
    \/ Clear(w)
    \/ RestoreConfig(w)
    \/ \E rootLevel \in ConfigRootLevels : FactoryInit(w, rootLevel)
    \/ RegisterAppender(w, "ls")

SpecRootName == Init /\ [][NextRootName({})]_vars

\* C31 as stated: a logger that no setLogLevel call has ever matched and for
\* whose name the persisted record holds no entry has no local override, so
\* for every string name (the name '__root' included) its effective level
\* equals the factory root level after any sequence of root-level
\* assignments.
C31_UnmatchedLoggerFollowsRoot ==
    \A k \in 1..Len(cachedLoggers) :
        item.kind # "json" \/ cachedLoggers[k].name \notin DOMAIN item.levels
            => /\ cachedLoggers[k].level \in {JsNull, JsUndefined}
               /\ cachedLoggers[k].effectiveLevel = theRootLevel

(***************************************************************************)
(* SpecTwoWriters: two LocalStorageAppender instances on the one Storage,  *)
(* the key 'log' absent at the start, their logging calls interleaved.     *)
(***************************************************************************)
\* The race bound: the logging calls the two instances make together
MaxRaceCalls == 8

TwoWritersNext ==
    \/ \E a \in Instances : lsCalls < MaxRaceCalls /\ LsError(a)
    \/ \E a \in Instances : lsCalls < MaxRaceCalls /\ LsWarn(a)
    \/ \E a \in Instances : lsCalls < MaxRaceCalls /\ LsInfo(a)
    \/ \E a \in Instances : lsCalls < MaxRaceCalls /\ LsDebug(a)
    \/ \E a \in Instances : lsCalls < MaxRaceCalls /\ LsTrace(a)
    \/ \E a \in Instances : lsCalls < MaxRaceCalls /\ LsDir(a)
    \/ \E a \in Instances : lsCalls < MaxRaceCalls /\ LsDirxml(a)
    \/ \E a \in Instances : GetLastLog(a)

SpecTwoWriters == InitSingleWriter /\ [][TwoWritersNext]_vars

\* the entry of call k is in the stored blob
InBlob(k) == \E j \in 1..Len(lsItem.entries) : lsItem.entries[j] = <<k>>

\* C32: two LocalStorageAppender instances sharing the storage key can lose
\* updates (the witness: an interleaving of fewer than 200 calls after
\* which an entry one instance wrote is absent from the blob), while with a
\* single instance writing no written entry is lost before the buffer
\* reaches capacity: the blob is always the cache of the instance that
\* wrote last, and holds every call's entry as long as only one has written.
C32_SingleWriterLosesNothing ==
    lsCalls >= 1 /\ lsCalls < LOG_ENTRY_COUNT
        => /\ lsItem.kind = "array"
           /\ \E a \in Instances : lsCache[a].def /\ lsCache[a].entries = lsItem.entries
           /\ InBlob(lsCalls)
           /\ \A a \in Instances :
                 (\A b \in Instances \ {a} : ~lsCache[b].def)
                     => lsItem.entries = EntriesOfCalls(1, lsCalls)

\* C32 witness: both instances have written, fewer than 200 entries in
\* total, and the entry of some call is absent from the stored blob
C32_Witness ==
    /\ lsCalls < LOG_ENTRY_COUNT
    /\ \A a \in Instances : lsCache[a].def
    /\ \E k \in 1..lsCalls : ~InBlob(k)

(***************************************************************************)
(* SpecFirstUse: one LocalStorageAppender on a storage whose key 'log'     *)
(* holds any kind of content.                                              *)
(***************************************************************************)
InitFirstUse ==
    /\ FactoryNew
    /\ localStorage = TRUE
    /\ item = Absent
    /\ logger = IdleLogger
    /\ calls = <<>>
    /\ last = Unobserved
    /\ lsCache = [a \in Instances |-> CacheUndefined]
    /\ lsItem \in FirstUseLogs
    /\ lsCalls = 0
    /\ lsReturned = ReturnedNothing

SpecFirstUse == InitFirstUse /\ [][LsNext({"first"})]_vars

\* C34 as stated: a logging call on the persistent appender never throws
\* because of the storage content: for every content of the log key at
\* first use (absent, malformed JSON, valid JSON that is no array, a valid
\* array) the call completes, and on unusable content the cache starts
\* empty so that the stored blob afterwards holds exactly the one new entry.
C34_LoggingNeverThrows ==
    [][lsCalls' = lsCalls + 1
       => /\ lsReturned' = ReturnedNothing
          /\ ~lsCache["first"].def /\ lsItem.kind # "array"
                => lsItem' = LogArray(<<<<lsCalls + 1>>>>)]_vars

\* C35 as stated: init preserves a valid persisted appender selection: if,
\* when init is called, the persisted record has a valid root level and an
\* appenders list K whose keys are all registered ('console', which init
\* registers itself, included), then after init the active appender keys
\* equal K, on the first init of the process and on every later one.
C35_InitKeepsPersistedAppenders ==
    [][\A rootLevel \in ConfigRootLevels :
          /\ item.kind = "json"
          /\ <<"__root">> \in DOMAIN item.levels
          /\ NamesLevel(item.levels[<<"__root">>])
          /\ Len(item.appenders) >= 1
          /\ \A j \in 1..Len(item.appenders) : item.appenders[j] \in registered \cup {"console"}
          /\ FactoryInit({}, rootLevel)
          => /\ appenders'.def
             /\ appenders'.keys = item.appenders]_vars

(***************************************************************************)
(* SpecStorageless: the factory in an environment with or without a        *)
(* Storage to hand to init.                                                *)
(***************************************************************************)
InitEitherStorage ==
    /\ FactoryNew
    /\ localStorage \in BOOLEAN
    /\ item = Absent
    /\ logger = IdleLogger
    /\ calls = <<>>
    /\ last = Unobserved
    /\ LsIdle

\* the selectors and levels handed to the factory in this specification: a
\* pattern, an index and a selector that is neither; OFF, a level name and
\* null
StoragelessSelectors ==
    {StringSelector(<<"t", "*">>), IndexSelector(1),
     [type |-> "undefined", chars |-> <<>>, num |-> 0]}

StoragelessLevels == {JsNum(Level.OFF), JsStr("TRACE"), JsNull}

StoragelessNext ==
    \/ \E id \in Identifiers : GetLogger({}, id)
    \/ \E arg \in StoragelessSelectors, level \in StoragelessLevels : SetLogLevel({}, arg, level)
    \/ \E keys \in KeyLists : SetLogAppenders({}, keys)
    \/ \E level \in StoragelessLevels : SetFactoryLevel({}, level)
    \/ Clear({})
    \/ RestoreConfig({})
    \/ \E rootLevel \in ConfigRootLevels : FactoryInit({}, rootLevel)
    \/ RegisterAppender({}, "ls")

SpecStorageless == InitEitherStorage /\ [][StoragelessNext]_vars

\* the in-memory state of the factory
InMemory ==
    [storedLevels |-> storedLevels, cachedLoggers |-> cachedLoggers,
     theRootLevel |-> theRootLevel, appenders |-> appenders]

\* What the operations do to the in-memory state m of a factory whose
\* storage is undefined (storeConfig() does nothing).
\* getLogger(identifier), refs Loggers having been constructed before
GetLoggerWithoutStorage(m, refs, identifier) ==
    LET theName == IF identifier.type # "string" \/ identifier.chars = <<>>
                   THEN DefaultName ELSE identifier.chars
        stored == Lookup(m.storedLevels, theName)
        lg == NewLogger(refs + 1, theName, m.theRootLevel,
                        IF Truthy(stored) THEN stored ELSE JsNull,
                        AppenderValues(m.appenders))
    IN IF \E i \in 1..Len(m.cachedLoggers) : m.cachedLoggers[i].name = theName
       THEN m
       ELSE [m EXCEPT !.cachedLoggers = Append(m.cachedLoggers, lg)]

\* setLogLevel(arg, level)
SetLogLevelWithoutStorage(m, arg, level) ==
    LET theLevel == getValidLevel(level)
        matched == {i \in 1..Len(m.cachedLoggers) :
                      IF arg.type = "string"
                      THEN regexpTest(ReplaceFirstStar(arg.chars), m.cachedLoggers[i].name)
                      ELSE indexTest(arg.num, i - 1)}
        names == {m.cachedLoggers[i].name : i \in matched}
    IN IF theLevel.type \in {"null", "undefined"} \/ arg.type \notin {"string", "number"}
       THEN m
       ELSE [m EXCEPT
               !.cachedLoggers = [i \in 1..Len(m.cachedLoggers) |->
                                    IF i \in matched
                                    THEN SetLevel(m.cachedLoggers[i], theLevel)
                                    ELSE m.cachedLoggers[i]],
               !.storedLevels = [k \in (DOMAIN m.storedLevels) \cup names |->
                                   IF k \in names THEN theLevel ELSE m.storedLevels[k]]]

\* setLogAppenders(...appenderTypes), reg being the registered keys
SetLogAppendersWithoutStorage(m, reg, appenderTypes) ==
    LET resolved == ResolveAppenders(reg, appenderTypes)
    IN IF resolved.def
       THEN [m EXCEPT
               !.appenders = resolved,
               !.cachedLoggers = [i \in 1..Len(m.cachedLoggers) |->
                                    [m.cachedLoggers[i] EXCEPT
                                       !.appenders = AppenderValues(resolved)]]]
       ELSE m

\* set level(level)
SetFactoryLevelWithoutStorage(m, level) ==
    LET theLevel == getValidLevel(level)
    IN IF theLevel.type = "null"
       THEN m
       ELSE [m EXCEPT
               !.theRootLevel = theLevel,
               !.cachedLoggers = [i \in 1..Len(m.cachedLoggers) |->
                                    SetRootLevel(m.cachedLoggers[i], theLevel)],
               !.storedLevels = Put(m.storedLevels, RootKey, theLevel)]

\* clear()
ClearWithoutStorage(m) ==
    [storedLevels |-> InitialStoredLevels,
     theRootLevel |-> InitialRootLevel,
     cachedLoggers |-> [i \in 1..Len(m.cachedLoggers) |-> Cleared(m.cachedLoggers[i])],
     appenders |-> AppenderMap(<<>>)]

\* C33: a factory without a storage reference behaves in memory exactly like
\* one with a storage: each of getLogger, setLogLevel, setLogAppenders,
\* root-level assignment and clear takes the in-memory state (stored
\* overrides, root level, active appender keys, loggers and their levels)
\* to the state the storage-less operation computes from it, whether or not
\* a storage is set, and without a storage the persistence step does
\* nothing: the storage key is left as it is.
C33_StorageDoesNotShowInMemory ==
    [][/\ \A id \in Identifiers :
             GetLogger({}, id)
                 => /\ InMemory' = GetLoggerWithoutStorage(InMemory, created, id)
                    /\ item' = item
       /\ \A arg \in StoragelessSelectors, level \in StoragelessLevels :
             SetLogLevel({}, arg, level)
                 => /\ InMemory' = SetLogLevelWithoutStorage(InMemory, arg, level)
                    /\ ~storage => item' = item
       /\ \A keys \in KeyLists :
             SetLogAppenders({}, keys)
                 => /\ InMemory' = SetLogAppendersWithoutStorage(InMemory, registered, keys)
                    /\ ~storage => item' = item
       /\ \A level \in StoragelessLevels :
             SetFactoryLevel({}, level)
                 => /\ InMemory' = SetFactoryLevelWithoutStorage(InMemory, level)
                    /\ ~storage => item' = item
       /\ Clear({})
             => /\ InMemory' = ClearWithoutStorage(InMemory)
                /\ ~storage => item' = item]_vars

\* C33 witness: a factory initialised without a storage holds two loggers
\* and an override that setLogLevel gave one of them; nothing was persisted
C33_Witness ==
    /\ ~storage
    /\ ~localStorage
    /\ "console" \in registered
    /\ Len(cachedLoggers) = 2
    /\ \E i \in 1..2 :
          /\ cachedLoggers[i].name \in DOMAIN storedLevels
          /\ cachedLoggers[i].level = storedLevels[cachedLoggers[i].name]
          /\ cachedLoggers[i].level.type # "null"
    /\ item = Absent

====
